---- MODULE Spec2Model ----
(***************************************************************************)
(* Model of the ai-daily-brief pipeline: the collection run                *)
(* (src/main.py fetch_all_tweets over src/scraper/twikit_scraper.py), the  *)
(* pre-filter (src/summarizer.py prefilter_tweets), the summarization      *)
(* adapter (src/summarizer.py summarize_tweets) and the driver             *)
(* (src/main.py run).                                                      *)
(*                                                                         *)
(* Time is counted in whole hours.  A Tweet is a record with the fields of *)
(* the Tweet dataclass that the pipeline reads.                            *)
(***************************************************************************)
EXTENDS Integers, Sequences, FiniteSets, TLC

\* ------------------------------------------------------------------ bounds
\* Total number of configured sources (handles plus search queries).
MaxSources == 2
\* Longest input list of the pre-filter.
MaxLen == 3
\* Largest lookback_hours setting.
MaxLookback == 1
\* Longest response text, in tokens: of summarize_tweets on its own, and of
\* the whole run.
MaxText == 5
MaxRunText == 3
\* Largest max_stories setting.
MaxStories == 1
\* The hour at which the posts of the collection pool were created.
BaseTime == 10

\* ------------------------------------------------------------------ Tweet
Tweet(id, likes, retweets, replies, views, is_retweet, created_at) ==
    [id |-> id, likes |-> likes, retweets |-> retweets, replies |-> replies,
     views |-> views, is_retweet |-> is_retweet, created_at |-> created_at]

\* What the provider can hold for a handle or a query: two ids, and two
\* versions of id 1 that differ in their counters.
CollectPool ==
    { Tweet(1, 0, 0, 0, 0, FALSE, BaseTime),
      Tweet(1, 1, 0, 0, 0, FALSE, BaseTime),
      Tweet(2, 0, 0, 0, 0, FALSE, BaseTime) }

\* The timelines / result pages of the provider: at most two items, the same
\* id possibly twice.
ProviderLists ==
    {<<>>} \cup { <<a>> : a \in CollectPool }
           \cup { <<a, b>> : a \in CollectPool, b \in CollectPool }

Min(a, b) == IF a <= b THEN a ELSE b

\* ------------------------------------------------------------------ scraper
\* TwikitScraper._ensure_auth: TRUE when the scraper is (or becomes)
\* authenticated, FALSE when it raises RuntimeError.
\* cookies_json: "" (unset), "valid" or "invalid" JSON; cookies_file: the
\* cookies.json file exists.
EnsureAuthSkipped(auth, cookies_json, cookies_file) == TRUE

EnsureAuthOk(auth, cookies_json, cookies_file) ==
    IF auth THEN TRUE
    ELSE IF cookies_json # "" THEN cookies_json = "valid"
    ELSE cookies_file

\* The body of scrape_user / search_tweets after _ensure_auth: the try block
\* builds `tweets` item by item and the except clause logs and falls through
\* to `return tweets`.  fail = 0: no exception; fail = -1: the provider call
\* raises before the loop; fail = k >= 1: converting item k of r raises.
FetchReturn(r, fail) ==
    IF fail = 0 THEN r
    ELSE IF fail = -1 THEN <<>>
    ELSE SubSeq(r, 1, fail - 1)

FailPoints(r) == (-1)..Len(r)

\* ------------------------------------------------------------------ _add
\* One iteration of the loop of fetch_all_tweets._add on the pair
\* acc = [seen |-> seen_ids, all |-> all_tweets].
AddOneNoCheck(acc, t) ==
    [seen |-> acc.seen \cup {t.id}, all |-> Append(acc.all, t)]

AddOneKeepLast(acc, t) ==
    IF t.id \notin acc.seen
    THEN [seen |-> acc.seen \cup {t.id}, all |-> Append(acc.all, t)]
    ELSE [seen |-> acc.seen,
          all |-> [j \in 1..Len(acc.all) |->
                      IF acc.all[j].id = t.id THEN t ELSE acc.all[j]]]

AddOne(acc, t) ==
    IF t.id \notin acc.seen
    THEN [seen |-> acc.seen \cup {t.id}, all |-> Append(acc.all, t)]
    ELSE acc

RECURSIVE Add(_, _)
Add(acc, tweets) ==
    IF tweets = <<>> THEN acc
    ELSE Add(AddOne(acc, Head(tweets)), Tail(tweets))

\* ------------------------------------------------------------------ prefilter_tweets
\* Tweet.engagement_score = likes + retweets * 2 + replies * 0.5, counted in
\* halves so that the value stays an integer: twice the score.
engagement_score(t) == 2 * t.likes + 4 * t.retweets + t.replies

\* The condition of the list comprehension of prefilter_tweets.
KeepTweetStrict(t, cutoff) == ~t.is_retweet /\ t.created_at > cutoff

KeepTweet(t, cutoff) == ~t.is_retweet /\ t.created_at >= cutoff

\* list.sort(key=engagement_score, reverse=True) is stable: an item goes
\* behind every item already placed whose score is at least its own.
InsertPoint(sorted, t) ==
    LET lower == { j \in 1..Len(sorted) :
                     engagement_score(sorted[j]) < engagement_score(t) }
    IN IF lower = {} THEN Len(sorted) + 1
       ELSE CHOOSE j \in lower : \A k \in lower : j <= k

InsertDescTiesFirst(sorted, t) ==
    LET lower == { j \in 1..Len(sorted) :
                     engagement_score(sorted[j]) <= engagement_score(t) }
        at == IF lower = {} THEN Len(sorted) + 1
              ELSE CHOOSE j \in lower : \A k \in lower : j <= k
    IN SubSeq(sorted, 1, at - 1) \o <<t>> \o SubSeq(sorted, at, Len(sorted))

InsertDesc(sorted, t) ==
    LET at == InsertPoint(sorted, t)
    IN SubSeq(sorted, 1, at - 1) \o <<t>> \o SubSeq(sorted, at, Len(sorted))

RECURSIVE SortInto(_, _)
SortInto(sorted, rest) ==
    IF rest = <<>> THEN sorted
    ELSE SortInto(InsertDesc(sorted, Head(rest)), Tail(rest))

SortByEngagement(s) == SortInto(<<>>, s)

\* The Python slice s[:n], a negative n counting from the end.
SliceUpToOneMore(s, n) == SubSeq(s, 1, Min(n + 1, Len(s)))

SliceUpTo(s, n) ==
    IF n >= 0 THEN SubSeq(s, 1, Min(n, Len(s)))
    ELSE SubSeq(s, 1, IF Len(s) + n > 0 THEN Len(s) + n ELSE 0)

\* prefilter_tweets(tweets, lookback_hours, max_tweets), `now` being the value
\* datetime.now(timezone.utc) returns inside the call.
prefilter_tweets(tws, lookback_hours, max_tweets, now) ==
    LET cutoff == now - lookback_hours
        kept == SelectSeq(tws, LAMBDA t : KeepTweet(t, cutoff))
    IN SliceUpTo(SortByEngagement(kept), max_tweets)

\* ------------------------------------------------------------------ summarize_tweets
\* The response text as a sequence of tokens: FENCE is ```, NL a newline,
\* LB and RB the brackets of a JSON array, COMMA a comma, OBJ a JSON object
\* (a story) and NUM a JSON number.
Tokens == {"FENCE", "NL", "LB", "RB", "COMMA", "OBJ", "NUM"}

\* str.strip(): leading and trailing whitespace removed.
RECURSIVE StripLeft(_)
StripLeft(s) ==
    IF s # <<>> /\ Head(s) = "NL" THEN StripLeft(Tail(s)) ELSE s

RECURSIVE StripRight(_)
StripRight(s) ==
    IF s # <<>> /\ s[Len(s)] = "NL" THEN StripRight(SubSeq(s, 1, Len(s) - 1)) ELSE s

Strip(s) == StripRight(StripLeft(s))

\* JSON values: [kind |-> "num" | "obj" | "list", items |-> the elements].
JsonNum == [kind |-> "num", items |-> <<>>]
JsonObj == [kind |-> "obj", items |-> <<>>]
JsonList(items) == [kind |-> "list", items |-> items]
ParseFail == [ok |-> FALSE, next |-> 0, val |-> JsonNum]

\* The first position at or after k that holds no whitespace.
RECURSIVE SkipWs(_, _)
SkipWs(s, k) ==
    IF k <= Len(s) /\ s[k] = "NL" THEN SkipWs(s, k + 1) ELSE k

\* json.loads, by recursive descent: a value starting at position k.
RECURSIVE ParseValue(_, _)
RECURSIVE ParseElems(_, _, _)
ParseValue(s, k) ==
    IF k > Len(s) THEN ParseFail
    ELSE IF s[k] = "NUM" THEN [ok |-> TRUE, next |-> k + 1, val |-> JsonNum]
    ELSE IF s[k] = "OBJ" THEN [ok |-> TRUE, next |-> k + 1, val |-> JsonObj]
    ELSE IF s[k] = "LB" THEN
        LET j == SkipWs(s, k + 1)
        IN IF j <= Len(s) /\ s[j] = "RB"
           THEN [ok |-> TRUE, next |-> j + 1, val |-> JsonList(<<>>)]
           ELSE ParseElems(s, j, <<>>)
    ELSE ParseFail

ParseElems(s, k, acc) ==
    LET v == ParseValue(s, k)
        j == SkipWs(s, v.next)
    IN IF ~v.ok \/ j > Len(s) THEN ParseFail
       ELSE IF s[j] = "RB"
            THEN [ok |-> TRUE, next |-> j + 1, val |-> JsonList(Append(acc, v.val))]
       ELSE IF s[j] = "COMMA"
            THEN ParseElems(s, SkipWs(s, j + 1), Append(acc, v.val))
       ELSE ParseFail

\* json.loads(text): ok = FALSE stands for JSONDecodeError.
JsonLoads(s) ==
    LET v == ParseValue(s, SkipWs(s, 1))
    IN IF v.ok /\ SkipWs(s, v.next) > Len(s) THEN v ELSE ParseFail

FirstNewline(s) ==
    LET nl == { k \in 1..Len(s) : s[k] = "NL" }
    IN IF nl = {} THEN 0 ELSE CHOOSE k \in nl : \A m \in nl : k <= m

\* summarize_tweets from `raw_text = response.content[0].text.strip()` to its
\* return: [raised |-> "none", stories |-> the list returned], or the
\* exception that escapes.
Raised(e) == [raised |-> e, stories |-> <<>>]
Returned(st) == [raised |-> "none", stories |-> st]

ParseStories(text) ==
    LET v == JsonLoads(text)
    IN IF ~v.ok THEN Returned(<<>>)                 \* except JSONDecodeError
       ELSE IF v.val.kind # "list" THEN Returned(<<>>) \* not isinstance(list)
       ELSE Returned(v.val.items)

SummarizeResponse(response) ==
    LET raw == Strip(response)
    IN IF raw # <<>> /\ Head(raw) = "FENCE"
       THEN LET nl == FirstNewline(raw)
            IN IF nl = 0 THEN Raised("IndexError")  \* split("\n", 1)[1]
               ELSE LET rest == SubSeq(raw, nl + 1, Len(raw))
                        cut == IF rest # <<>> /\ rest[Len(rest)] = "FENCE"
                               THEN SubSeq(rest, 1, Len(rest) - 1)
                               ELSE rest
                    IN ParseStories(Strip(cut))
       ELSE ParseStories(raw)

\* summarize_tweets(tweets, ...): api_key is whether ANTHROPIC_API_KEY is set,
\* api_ok whether client.messages.create returns, response its text.
summarize_tweets(tws, api_key, api_ok, response) ==
    IF tws = <<>> THEN Returned(<<>>)
    ELSE IF ~api_key THEN Raised("RuntimeError")
    ELSE IF ~api_ok THEN Raised("APIError")
    ELSE SummarizeResponse(response)

\* The response texts of at most n tokens.
ResponseTexts(n) == UNION { [1..k -> Tokens] : k \in 0..n }

\* Everything summarize_tweets can hand back to run() for a non-empty input.
SummarizeOutcomes ==
    { summarize_tweets(<<1>>, FALSE, TRUE, <<>>),
      summarize_tweets(<<1>>, TRUE, FALSE, <<>>) }
    \cup { summarize_tweets(<<1>>, TRUE, TRUE, r) : r \in ResponseTexts(MaxRunText) }

\* ------------------------------------------------------------------ run
\* The three `if not ...: return` tests of run().
NeverEmpty(list) == FALSE

NoTweetsFetched(list) == list = <<>>

NoTweetsPassed(list) == list = <<>>

NoStories(list) == list = <<>>

\* send_brief(stories, ...): password is whether GMAIL_APP_PASSWORD is set,
\* smtp_ok whether the SMTP exchange succeeds.  _render_plain_text reads
\* story['headline'] of every story, which raises for a non-object.
send_brief(st, password, smtp_ok) ==
    IF ~password THEN "RuntimeError"
    ELSE IF \E k \in 1..Len(st) : st[k].kind # "obj" THEN "TypeError"
    ELSE IF ~smtp_ok THEN "SMTPException"
    ELSE "none"

\* ------------------------------------------------------------------ state
VARIABLES
    handles,          \* config: the account handles, in order
    search_queries,   \* config: the search queries, in order
    cookies_json,     \* TWITTER_COOKIES: "", "valid" or "invalid"
    cookies_file,     \* cookies.json exists
    authenticated,    \* TwikitScraper._authenticated
    pc,               \* position of the driver / of the collection run
    i,                \* index of the handle or query being processed
    seen_ids,         \* fetch_all_tweets.seen_ids
    all_tweets,       \* fetch_all_tweets.all_tweets
    history,          \* every fetch so far: [ok, posts, kind, target] (kept by SpecCollect)
    calls,            \* fetches that reached the provider
    inflight,         \* fetches awaiting the provider
    delays,           \* asyncio.sleep(delay) calls completed
    closes,           \* scraper.close() calls
    error,            \* the exception that escaped, or "none"
    stages,           \* the stages of run() invoked so far, in order
    settings,         \* the settings run() passes to the stages
    filtered,         \* run(): the result of prefilter_tweets
    stories,          \* run(): the result of summarize_tweets
    delivered,        \* the Story lists handed to send_brief
    rk_pc,            \* prefilter_tweets on its own: "call", then "done"
    rk_tweets,        \* its input list
    rk_lookback,      \* its lookback_hours
    rk_max,           \* its max_tweets
    rk_now,           \* the time of the call
    rk_out,           \* its result
    sm_pc,            \* summarize_tweets on its own: "call", then "done"
    sm_response,      \* the text of the upstream response
    sm_max_stories,   \* its max_stories
    sm_out            \* its outcome

collectVars == <<handles, search_queries, cookies_json, cookies_file,
                 authenticated, pc, i, seen_ids, all_tweets, history,
                 calls, inflight, delays, closes, error, stages>>
runVars == <<settings, filtered, stories, delivered>>
rankVars == <<rk_pc, rk_tweets, rk_lookback, rk_max, rk_now, rk_out>>
sumVars == <<sm_pc, sm_response, sm_max_stories, sm_out>>
vars == <<collectVars, runVars, rankVars, sumVars>>

Sources(n) == [j \in 1..n |-> j]

RankIdle ==
    /\ rk_pc = "idle"
    /\ rk_tweets = <<>>
    /\ rk_lookback = 0
    /\ rk_max = 0
    /\ rk_now = 0
    /\ rk_out = <<>>

SumIdle ==
    /\ sm_pc = "idle"
    /\ sm_response = <<>>
    /\ sm_max_stories = 0
    /\ sm_out = Returned(<<>>)

\* The settings fetch_all_tweets does not read.
SettingsSpace ==
    [lookback_hours : 0..MaxLookback, max_input_tweets : 0..2,
     max_stories : 1..MaxStories]

\* The process before run() is entered.
InitProcess ==
    /\ \E nh \in 0..MaxSources : \E nq \in 0..(MaxSources - nh) :
          /\ handles = Sources(nh)
          /\ search_queries = Sources(nq)
    /\ cookies_json \in {"", "valid", "invalid"}
    /\ cookies_file \in BOOLEAN
    /\ authenticated = FALSE
    /\ pc = "start"
    /\ i = 0
    /\ seen_ids = {}
    /\ all_tweets = <<>>
    /\ history = <<>>
    /\ calls = 0
    /\ inflight = 0
    /\ delays = 0
    /\ closes = 0
    /\ error = "none"
    /\ stages = <<>>
    /\ filtered = <<>>
    /\ stories = <<>>
    /\ delivered = <<>>
    /\ RankIdle
    /\ SumIdle

Init == InitProcess /\ settings \in SettingsSpace

\* fetch_all_tweets on its own reads none of these settings.
InitCollect ==
    InitProcess /\ settings = [lookback_hours |-> 0, max_input_tweets |-> 0,
                               max_stories |-> 1]

\* ------------------------------------------------------------------ fetch_all_tweets
\* run() calls fetch_all_tweets: create_scraper(), empty seen_ids/all_tweets.
FetchAllStart ==
    /\ pc = "start"
    /\ stages' = Append(stages, "collect")
    /\ authenticated' = FALSE
    /\ seen_ids' = {}
    /\ all_tweets' = <<>>
    /\ i' = 1
    /\ pc' = "handles"
    /\ UNCHANGED <<handles, search_queries, cookies_json, cookies_file,
                   history, calls, inflight, delays, closes, error>>
    /\ UNCHANGED <<runVars, rankVars, sumVars>>

\* A fetch is issued (scrape_user when phase = "handles", search_tweets when
\* phase = "queries"): _ensure_auth runs first, outside the try block, so its
\* RuntimeError escapes fetch_all_tweets and run().
IssueFetch(phase, inflightPc) ==
    /\ pc = phase
    /\ IF EnsureAuthOk(authenticated, cookies_json, cookies_file)
       THEN /\ authenticated' = TRUE
            /\ calls' = calls + 1
            /\ inflight' = inflight + 1
            /\ pc' = inflightPc
            /\ error' = error
       ELSE /\ pc' = "fatal"
            /\ error' = "auth"
            /\ UNCHANGED <<authenticated, calls, inflight>>
    /\ UNCHANGED <<handles, search_queries, cookies_json, cookies_file, i,
                   seen_ids, all_tweets, history, delays, closes, stages>>
    /\ UNCHANGED <<runVars, rankVars, sumVars>>

\* The awaited fetch returns its list; _add merges it.
FetchDone(inflightPc, sleepPc, record) ==
    /\ pc = inflightPc
    /\ \E r \in ProviderLists : \E fail \in FailPoints(r) :
         LET got == FetchReturn(r, fail)
             acc == Add([seen |-> seen_ids, all |-> all_tweets], got)
         IN /\ seen_ids' = acc.seen
            /\ all_tweets' = acc.all
            /\ history' = IF record
                           THEN Append(history,
                                       [ok |-> fail = 0, posts |-> got,
                                        kind |-> inflightPc,
                                        target |-> IF inflightPc = "scrape_user"
                                                   THEN handles[i]
                                                   ELSE search_queries[i]])
                           ELSE history
    /\ inflight' = inflight - 1
    /\ pc' = sleepPc
    /\ UNCHANGED <<handles, search_queries, cookies_json, cookies_file,
                   authenticated, i, calls, delays, closes, error, stages>>
    /\ UNCHANGED <<runVars, rankVars, sumVars>>

\* The loop body without its await asyncio.sleep(delay).
SleepSkipped(sleepPc, phase) ==
    /\ pc = sleepPc
    /\ i' = i + 1
    /\ pc' = phase
    /\ UNCHANGED <<handles, search_queries, cookies_json, cookies_file,
                   authenticated, seen_ids, all_tweets, history, calls,
                   inflight, delays, closes, error, stages>>
    /\ UNCHANGED <<runVars, rankVars, sumVars>>

\* await asyncio.sleep(delay), then the next iteration.
SleepDone(sleepPc, phase) ==
    /\ pc = sleepPc
    /\ delays' = delays + 1
    /\ i' = i + 1
    /\ pc' = phase
    /\ UNCHANGED <<handles, search_queries, cookies_json, cookies_file,
                   authenticated, seen_ids, all_tweets, history, calls,
                   inflight, closes, error, stages>>
    /\ UNCHANGED <<runVars, rankVars, sumVars>>

\* main.py 49-54
ScrapeUserCall == i <= Len(handles) /\ IssueFetch("handles", "scrape_user")
ScrapeUserReturn(record) == pc = "scrape_user" /\ FetchDone("scrape_user", "sleep_handle", record)
SleepAfterHandle == pc = "sleep_handle" /\ SleepDone("sleep_handle", "handles")

\* The handles loop is exhausted: on to the queries loop.
HandlesDone ==
    /\ pc = "handles"
    /\ i > Len(handles)
    /\ i' = 1
    /\ pc' = "queries"
    /\ UNCHANGED <<handles, search_queries, cookies_json, cookies_file,
                   authenticated, seen_ids, all_tweets, history, calls,
                   inflight, delays, closes, error, stages>>
    /\ UNCHANGED <<runVars, rankVars, sumVars>>

\* main.py 57-62
SearchCall == i <= Len(search_queries) /\ IssueFetch("queries", "search_tweets")
SearchReturn(record) == pc = "search_tweets" /\ FetchDone("search_tweets", "sleep_query", record)
SleepAfterQuery == pc = "sleep_query" /\ SleepDone("sleep_query", "queries")

\* The queries loop is exhausted, and scraper.close() is left out.
CloseScraperSkipped ==
    /\ pc = "queries"
    /\ i > Len(search_queries)
    /\ pc' = "closed"
    /\ UNCHANGED <<handles, search_queries, cookies_json, cookies_file,
                   authenticated, i, seen_ids, all_tweets, history, calls,
                   inflight, delays, closes, error, stages>>
    /\ UNCHANGED <<runVars, rankVars, sumVars>>

\* The queries loop is exhausted: await scraper.close()
CloseScraper ==
    /\ pc = "queries"
    /\ i > Len(search_queries)
    /\ closes' = closes + 1
    /\ pc' = "closed"
    /\ UNCHANGED <<handles, search_queries, cookies_json, cookies_file,
                   authenticated, i, seen_ids, all_tweets, history, calls,
                   inflight, delays, error, stages>>
    /\ UNCHANGED <<runVars, rankVars, sumVars>>

\* return all_tweets
ReturnAllTweets ==
    /\ pc = "closed"
    /\ pc' = "fetched"
    /\ UNCHANGED <<handles, search_queries, cookies_json, cookies_file,
                   authenticated, i, seen_ids, all_tweets, history, calls,
                   inflight, delays, closes, error, stages>>
    /\ UNCHANGED <<runVars, rankVars, sumVars>>

\* ------------------------------------------------------------------ run()
\* main.py 84-96: the emptiness test, then prefilter_tweets.
RunPrefilter ==
    /\ pc = "fetched"
    /\ IF NoTweetsFetched(all_tweets)
       THEN /\ pc' = "exit_no_tweets"
            /\ UNCHANGED <<stages, filtered>>
       ELSE /\ \E now \in BaseTime..(BaseTime + 1) :
                 filtered' = prefilter_tweets(all_tweets, settings.lookback_hours,
                                              settings.max_input_tweets, now)
            /\ stages' = Append(stages, "rank")
            /\ pc' = "ranked"
    /\ UNCHANGED <<handles, search_queries, cookies_json, cookies_file,
                   authenticated, i, seen_ids, all_tweets, history, calls,
                   inflight, delays, closes, error>>
    /\ UNCHANGED <<settings, stories, delivered, rankVars, sumVars>>

\* main.py 98-110: the emptiness test, then summarize_tweets.
RunSummarize ==
    /\ pc = "ranked"
    /\ IF NoTweetsPassed(filtered)
       THEN /\ pc' = "exit_no_filtered"
            /\ UNCHANGED <<stages, stories, error>>
       ELSE /\ stages' = Append(stages, "summarize")
            /\ \E out \in SummarizeOutcomes :
                 IF out.raised = "none"
                 THEN /\ stories' = out.stories
                      /\ pc' = "summarized"
                      /\ error' = error
                 ELSE /\ pc' = "fatal"
                      /\ error' = out.raised
                      /\ stories' = stories
    /\ UNCHANGED <<handles, search_queries, cookies_json, cookies_file,
                   authenticated, i, seen_ids, all_tweets, history, calls,
                   inflight, delays, closes>>
    /\ UNCHANGED <<settings, filtered, delivered, rankVars, sumVars>>

\* main.py 112-128: the emptiness test, then send_brief.
RunDeliver ==
    /\ pc = "summarized"
    /\ IF NoStories(stories)
       THEN /\ pc' = "exit_no_stories"
            /\ UNCHANGED <<stages, delivered, error>>
       ELSE /\ stages' = Append(stages, "deliver")
            /\ delivered' = Append(delivered, stories)
            /\ \E password \in BOOLEAN, smtp_ok \in BOOLEAN :
                 LET e == send_brief(stories, password, smtp_ok)
                 IN /\ error' = e
                    /\ pc' = IF e = "none" THEN "sent" ELSE "fatal"
    /\ UNCHANGED <<handles, search_queries, cookies_json, cookies_file,
                   authenticated, i, seen_ids, all_tweets, history, calls,
                   inflight, delays, closes>>
    /\ UNCHANGED <<settings, filtered, stories, rankVars, sumVars>>

\* ------------------------------------------------------------------ specifications
\* The whole run of the driver.
Next ==
    \/ FetchAllStart
    \/ ScrapeUserCall
    \/ ScrapeUserReturn(FALSE)
    \/ SleepAfterHandle
    \/ HandlesDone
    \/ SearchCall
    \/ SearchReturn(FALSE)
    \/ SleepAfterQuery
    \/ CloseScraper
    \/ ReturnAllTweets
    \/ RunPrefilter
    \/ RunSummarize
    \/ RunDeliver

Spec == Init /\ [][Next]_vars

\* One collection run, with the history of its fetches kept.
NextCollect ==
    \/ FetchAllStart
    \/ ScrapeUserCall
    \/ ScrapeUserReturn(TRUE)
    \/ SleepAfterHandle
    \/ HandlesDone
    \/ SearchCall
    \/ SearchReturn(TRUE)
    \/ SleepAfterQuery
    \/ CloseScraper
    \/ ReturnAllTweets

SpecCollect == InitCollect /\ [][NextCollect]_vars

\* prefilter_tweets on its own, over every input list of the pool.
RankStatus == { <<FALSE, BaseTime>>, <<FALSE, BaseTime - 1>>, <<TRUE, BaseTime>> }

\* <<likes, retweets, replies, views>>
RankCounters == { <<0, 0, 0, 9>>, <<2, 0, 0, 0>>, <<0, 1, 0, 5>>, <<1, 0, 2, 0>> }

\* An input list: the ids are distinct, as fetch_all_tweets returns them.
RankInput(n, c, st) ==
    [k \in 1..n |-> Tweet(k, c[k][1], c[k][2], c[k][3], c[k][4], st[k][1], st[k][2])]

InitRank ==
    /\ handles = <<>>
    /\ search_queries = <<>>
    /\ cookies_json = ""
    /\ cookies_file = FALSE
    /\ authenticated = FALSE
    /\ pc = "idle"
    /\ i = 0
    /\ seen_ids = {}
    /\ all_tweets = <<>>
    /\ history = <<>>
    /\ calls = 0
    /\ inflight = 0
    /\ delays = 0
    /\ closes = 0
    /\ error = "none"
    /\ stages = <<>>
    /\ settings = [lookback_hours |-> 0, max_input_tweets |-> 0, max_stories |-> 1]
    /\ filtered = <<>>
    /\ stories = <<>>
    /\ delivered = <<>>
    /\ SumIdle
    /\ rk_pc = "call"
    /\ \E n \in 0..MaxLen :
         \E c \in [1..n -> RankCounters], st \in [1..n -> RankStatus] :
           rk_tweets = RankInput(n, c, st)
    /\ rk_lookback \in 0..MaxLookback
    /\ rk_max = 0
    /\ rk_now = BaseTime
    /\ rk_out = <<>>

PrefilterCall ==
    /\ rk_pc = "call"
    /\ \E m \in 0..MaxLen :
         /\ rk_max' = m
         /\ rk_out' = prefilter_tweets(rk_tweets, rk_lookback, m, rk_now)
    /\ rk_pc' = "done"
    /\ UNCHANGED <<rk_tweets, rk_lookback, rk_now>>
    /\ UNCHANGED <<collectVars, runVars, sumVars>>

SpecRank == InitRank /\ [][PrefilterCall]_vars

\* summarize_tweets on its own, from the upstream response on.
InitSummarize ==
    /\ handles = <<>>
    /\ search_queries = <<>>
    /\ cookies_json = ""
    /\ cookies_file = FALSE
    /\ authenticated = FALSE
    /\ pc = "idle"
    /\ i = 0
    /\ seen_ids = {}
    /\ all_tweets = <<>>
    /\ history = <<>>
    /\ calls = 0
    /\ inflight = 0
    /\ delays = 0
    /\ closes = 0
    /\ error = "none"
    /\ stages = <<>>
    /\ settings = [lookback_hours |-> 0, max_input_tweets |-> 0, max_stories |-> 1]
    /\ filtered = <<>>
    /\ stories = <<>>
    /\ delivered = <<>>
    /\ RankIdle
    /\ sm_pc = "call"
    /\ sm_response \in ResponseTexts(MaxText)
    /\ sm_max_stories \in 1..MaxStories
    /\ sm_out = Returned(<<>>)

SummarizeCall ==
    /\ sm_pc = "call"
    /\ sm_out' = summarize_tweets(<<1>>, TRUE, TRUE, sm_response)
    /\ sm_pc' = "done"
    /\ UNCHANGED <<sm_response, sm_max_stories>>
    /\ UNCHANGED <<collectVars, runVars, rankVars>>

SpecSummarize == InitSummarize /\ [][SummarizeCall]_vars

\* ================================================================== claims
\* ------------------------------------------------------------------ helpers
Range(s) == { s[k] : k \in 1..Len(s) }
IdsOf(s) == { s[k].id : k \in 1..Len(s) }

\* The posts of the fetches lo..hi of the history, concatenated; with okOnly,
\* those of the fetches that did not fail.
RECURSIVE Fetched(_, _, _)
Fetched(lo, hi, okOnly) ==
    IF hi < lo THEN <<>>
    ELSE Fetched(lo, hi - 1, okOnly)
         \o (IF okOnly /\ ~history[hi].ok THEN <<>> ELSE history[hi].posts)

\* The items of s whose id occurs at no earlier position of s.
FirstSeen(s) ==
    LET first == { k \in 1..Len(s) : \A j \in 1..(k - 1) : s[j].id # s[k].id }
        nth[n \in 0..Len(s)] ==
            IF n = 0 THEN 0
            ELSE CHOOSE k \in first :
                   /\ k > nth[n - 1]
                   /\ \A m \in first : m > nth[n - 1] => k <= m
    IN [n \in 1..Cardinality(first) |-> s[nth[n]]]

\* The position of the first item of s with this id.
FirstIndex(s, id) ==
    CHOOSE k \in 1..Len(s) : s[k].id = id /\ \A j \in 1..(k - 1) : s[j].id # id

NumSources == Len(handles) + Len(search_queries)
CredentialsUsable == cookies_json = "valid" \/ (cookies_json = "" /\ cookies_file)
NoCredentials == cookies_json = "" /\ ~cookies_file

\* C1: whichever fetches fail, the collection run still fetches every handle
\* and query, a failed fetch contributes no Post, no exception escapes the run
\* (the scraper being able to authenticate), and the result is the
\* deduplicated Posts of the fetches that succeeded.
C1_FailuresIsolated ==
    /\ \A k \in 1..Len(history) : ~history[k].ok => history[k].posts = <<>>
    /\ CredentialsUsable => pc # "fatal"
    /\ pc = "fetched" =>
         /\ calls = NumSources
         /\ Len(history) = NumSources
         /\ all_tweets = FirstSeen(Fetched(1, Len(history), TRUE))

\* C2: the list the collection run builds and returns holds no id twice, holds
\* every id any fetch returned, and lists the Posts in first-seen order (the
\* handles in input order, then the queries), each id with the fields of its
\* first occurrence.
C2_FirstSeenDedup ==
    LET log == Fetched(1, Len(history), FALSE)
    IN /\ \A a, b \in 1..Len(all_tweets) :
            a # b => all_tweets[a].id # all_tweets[b].id
       /\ IdsOf(all_tweets) = IdsOf(log)
       /\ all_tweets = FirstSeen(log)
       /\ pc = "fetched" => Len(history) = NumSources

C2_Witness ==
    /\ pc = "fetched"
    /\ Len(handles) = 1
    /\ Len(search_queries) = 1
    /\ Len(all_tweets) = 2
    /\ \E a \in Range(history[1].posts), b \in Range(history[2].posts) :
         a.id = b.id /\ a # b

\* C3: when the fetches of a run produce A and then B, and every id of B is an
\* id of A, the result has the ids of A alone, each once, in the order in which
\* A first shows them.
C3_DedupIdempotent ==
    pc = "fetched" =>
      \A k \in 0..Len(history) :
        LET A == Fetched(1, k, FALSE)
            B == Fetched(k + 1, Len(history), FALSE)
        IN IdsOf(B) \subseteq IdsOf(A) =>
             /\ IdsOf(all_tweets) = IdsOf(A)
             /\ Len(all_tweets) = Cardinality(IdsOf(A))
             /\ \A x, y \in 1..Len(all_tweets) :
                  x < y => FirstIndex(A, all_tweets[x].id)
                             < FirstIndex(A, all_tweets[y].id)

C3_Witness ==
    /\ pc = "fetched"
    /\ Len(history) = 2
    /\ Cardinality(IdsOf(history[1].posts)) = 2
    /\ history[2].posts # <<>>
    /\ Len(all_tweets) = 2

\* The engagement score of the claims, in halves: likes + 2*reposts +
\* 0.5*replies, times two.
ClaimScore(t) == 2 * t.likes + 4 * t.retweets + t.replies
Survives(t) == ~t.is_retweet /\ t.created_at >= rk_now - rk_lookback
Survivors == { k \in 1..Len(rk_tweets) : Survives(rk_tweets[k]) }

\* C4: a Post is in the output of prefilter_tweets only if it is no repost and
\* created_at >= now - lookback; the bound is inclusive, so with room in the
\* output a non-repost created exactly at now - lookback is in it.
C4_FilterCorrect ==
    rk_pc = "done" =>
      /\ \A k \in 1..Len(rk_out) :
           /\ rk_out[k] \in Range(rk_tweets)
           /\ ~rk_out[k].is_retweet
           /\ rk_out[k].created_at >= rk_now - rk_lookback
      /\ rk_max >= Len(rk_tweets) =>
           \A k \in 1..Len(rk_tweets) :
             (~rk_tweets[k].is_retweet
                /\ rk_tweets[k].created_at = rk_now - rk_lookback)
               => rk_tweets[k] \in Range(rk_out)

C4_Witness ==
    /\ rk_pc = "done"
    /\ \E t \in Range(rk_out) : t.created_at = rk_now - rk_lookback
    /\ \E t \in Range(rk_tweets) :
         t.is_retweet /\ t.created_at >= rk_now - rk_lookback
    /\ \E t \in Range(rk_tweets) :
         ~t.is_retweet /\ t.created_at < rk_now - rk_lookback

\* C5: the output of prefilter_tweets is in non-increasing order of
\* likes + 2*reposts + 0.5*replies (the views play no part), and two Posts of
\* equal score keep the order they had in the input (the id of an input Post
\* is its position).
C5_SortedStable ==
    rk_pc = "done" =>
      \A a, b \in 1..Len(rk_out) :
        a < b =>
          /\ ClaimScore(rk_out[a]) >= ClaimScore(rk_out[b])
          /\ ClaimScore(rk_out[a]) = ClaimScore(rk_out[b])
               => rk_out[a].id < rk_out[b].id

C5_Witness ==
    /\ rk_pc = "done"
    /\ Len(rk_out) = 3
    /\ ClaimScore(rk_out[1]) = ClaimScore(rk_out[2])
    /\ rk_out[1].views # rk_out[2].views
    /\ rk_out[1].likes # rk_out[2].likes
    /\ ClaimScore(rk_out[2]) > ClaimScore(rk_out[3])
    /\ rk_out[3].views > rk_out[1].views

\* The place of input item k in the filtered, sorted list: one more than the
\* number of survivors that go before it.
PlaceOf(k) ==
    1 + Cardinality({ j \in Survivors :
          \/ ClaimScore(rk_tweets[j]) > ClaimScore(rk_tweets[k])
          \/ ClaimScore(rk_tweets[j]) = ClaimScore(rk_tweets[k]) /\ j < k })

\* C6: prefilter_tweets returns the first max_count Posts of the filtered,
\* sorted list: min(max_count, survivors) of them, none for max_count = 0 and
\* none when every input Post is a repost or stale.
C6_Truncated ==
    rk_pc = "done" =>
      /\ Len(rk_out) = Min(rk_max, Cardinality(Survivors))
      /\ \A n \in 1..Len(rk_out) :
           \E k \in Survivors : rk_out[n] = rk_tweets[k] /\ PlaceOf(k) = n
      /\ rk_max = 0 => rk_out = <<>>
      /\ Survivors = {} => rk_out = <<>>

C6_Witness ==
    /\ rk_pc = "done"
    /\ rk_max = 2
    /\ Cardinality(Survivors) = 3
    /\ Len(rk_out) = 2

StageOrder == <<"collect", "rank", "summarize", "deliver">>
Exits == {"exit_no_tweets", "exit_no_filtered", "exit_no_stories"}

\* C7: the stages run in the order collect, rank, summarize, deliver; after a
\* stage with an empty result no later stage is invoked and the run ends
\* without failure; deliver is invoked at most once, with a non-empty list.
C7_StagesShortCircuit ==
    /\ Len(stages) <= 4
    /\ stages = SubSeq(StageOrder, 1, Len(stages))
    /\ Len(stages) >= 2 => all_tweets # <<>>
    /\ Len(stages) >= 3 => filtered # <<>>
    /\ Len(stages) >= 4 => stories # <<>>
    /\ pc \in Exits => error = "none"
    /\ pc = "exit_no_tweets" => all_tweets = <<>> /\ Len(stages) = 1
    /\ pc = "exit_no_filtered" => filtered = <<>> /\ Len(stages) = 2
    /\ pc = "exit_no_stories" => stories = <<>> /\ Len(stages) = 3
    /\ pc = "sent" => error = "none" /\ Len(stages) = 4
    /\ pc = "fatal" =>
         \/ error = "auth" /\ Len(stages) = 1
         \/ error \in {"RuntimeError", "APIError", "IndexError"} /\ Len(stages) = 3
         \/ error \in {"RuntimeError", "TypeError", "SMTPException"} /\ Len(stages) = 4
    /\ Len(delivered) <= 1
    /\ Len(delivered) = 1 <=> Len(stages) = 4
    /\ \A k \in 1..Len(delivered) : delivered[k] # <<>> /\ delivered[k] = stories

C7_Witness ==
    /\ pc = "exit_no_stories"
    /\ stages = SubSeq(StageOrder, 1, 3)
    /\ filtered # <<>>
    /\ stories = <<>>
    /\ delivered = <<>>

\* C8: when the scraper cannot authenticate (no credentials in any configured
\* form, or unusable ones), the failure is fatal: the first fetch attempt
\* raises before the provider is reached, so the run makes no provider fetch,
\* no ranking, no summarization and no delivery, and does not end normally.
C8_AuthFailureFatal ==
    ~CredentialsUsable =>
      /\ calls = 0
      /\ inflight = 0
      /\ Len(stages) <= 1
      /\ filtered = <<>> /\ stories = <<>> /\ delivered = <<>>
      /\ pc \notin {"scrape_user", "search_tweets", "sleep_handle", "sleep_query",
                    "ranked", "summarized", "sent"}
      /\ NumSources > 0 => pc \in {"start", "handles", "queries", "fatal"}
      /\ pc = "fatal" <=> error = "auth"

C8_Witness ==
    /\ NoCredentials
    /\ pc = "fatal"
    /\ error = "auth"
    /\ Len(handles) = 0
    /\ Len(search_queries) = 2
    /\ calls = 0

\* A response no reading of which is a JSON array: neither the text itself,
\* nor the text after its first line, nor that with a closing fence removed.
DropFirstLine(s) ==
    IF FirstNewline(s) = 0 THEN <<>> ELSE SubSeq(s, FirstNewline(s) + 1, Len(s))
DropClosingFence(s) ==
    IF s # <<>> /\ s[Len(s)] = "FENCE" THEN SubSeq(s, 1, Len(s) - 1) ELSE s
IsJsonArray(s) == JsonLoads(s).ok /\ JsonLoads(s).val.kind = "list"
Unparseable(r) ==
    /\ ~IsJsonArray(Strip(r))
    /\ ~IsJsonArray(Strip(DropFirstLine(Strip(r))))
    /\ ~IsJsonArray(Strip(DropClosingFence(DropFirstLine(Strip(r)))))

\* C9: summarize_tweets fails closed: for a response that cannot be parsed
\* (invalid JSON, JSON that is no array, a bare or malformed fence) it returns
\* the empty list and raises nothing.
C9_FailsClosed ==
    (sm_pc = "done" /\ Unparseable(sm_response)) => sm_out = Returned(<<>>)

\* C10: the Story list summarize_tweets returns has at most max_stories items.
C10_AtMostMaxStories ==
    sm_pc = "done" => Len(sm_out.stories) <= sm_max_stories

\* The k-th source of a collection run in input order: the handles, then the
\* queries.
SourceAt(k) ==
    IF k <= Len(handles)
    THEN [kind |-> "scrape_user", target |-> handles[k]]
    ELSE [kind |-> "search_tweets", target |-> search_queries[k - Len(handles)]]

Fetching == pc \in {"scrape_user", "search_tweets"}
Sleeping == pc \in {"sleep_handle", "sleep_query"}

\* What holds of every state of a collection run.
FetchesInOrder ==
    /\ inflight \in {0, 1}
    /\ inflight = 1 <=> Fetching
    /\ calls <= NumSources
    /\ Len(history) = calls - inflight
    /\ \A k \in 1..Len(history) :
         /\ history[k].kind = SourceAt(k).kind
         /\ history[k].target = SourceAt(k).target
    /\ pc \in {"scrape_user", "sleep_handle"} => calls = i /\ i <= Len(handles)
    /\ pc \in {"search_tweets", "sleep_query"} =>
         calls = Len(handles) + i /\ i <= Len(search_queries)
    /\ delays = IF Fetching \/ Sleeping THEN calls - 1 ELSE calls
    /\ pc \in {"closed", "fetched"} => calls = NumSources /\ delays = NumSources

\* What holds of every step of a collection run.
FetchThenDelay ==
    /\ calls' # calls =>
         /\ calls' = calls + 1
         /\ inflight = 0 /\ inflight' = 1
         /\ delays = calls
    /\ delays' # delays =>
         /\ delays' = delays + 1
         /\ inflight = 0 /\ inflight' = 0
         /\ calls = delays'

\* C11: within one collection run at most one fetch is in flight, the fetches
\* are those of the handles in input order and then those of the queries in
\* input order, a fetch starts only when every earlier fetch has completed and
\* has been followed by its delay, exactly one delay follows each fetch (the
\* last one too), and a run that completes has made as many delays as there
\* are handles and queries.
C11_SequentialFetches == [](FetchesInOrder) /\ [][FetchThenDelay]_vars

\* A completed run over one handle and one query: two fetches, two delays.
C11_Witness ==
    /\ pc = "fetched"
    /\ Len(handles) = 1 /\ Len(search_queries) = 1
    /\ Len(history) = 2
    /\ history[1].kind = "scrape_user" /\ history[2].kind = "search_tweets"
    /\ delays = 2

\* What holds of close in every state of a collection run.
ClosedAtTheEnd ==
    /\ closes \in {0, 1}
    /\ closes = 1 <=> pc \in {"closed", "fetched"}
    /\ closes = 1 => inflight = 0 /\ calls = NumSources /\ delays = NumSources
    /\ pc = "fatal" => closes = 0 /\ error = "auth"

\* What holds of close in every step of a collection run.
CloseThenReturn ==
    /\ closes' # closes =>
         /\ closes' = closes + 1
         /\ inflight = 0 /\ calls = NumSources /\ delays = calls
         /\ pc' # "fetched"
    /\ closes = 1 => calls' = calls /\ delays' = delays /\ closes' = closes
    /\ (pc' = "fetched" /\ pc # "fetched") => closes = 1

\* C12: a collection run that returns has invoked close exactly once, after
\* the last fetch and its delay and before the result is returned, and issues
\* no fetch after close; a run ended by a fatal error of a fetch (the
\* authentication failure) never invokes close.
C12_CloseExactlyOnce == [](ClosedAtTheEnd) /\ [][CloseThenReturn]_vars

\* A run over two sources that has closed the scraper and returned.
C12_Witness ==
    /\ pc = "fetched"
    /\ NumSources = 2
    /\ calls = 2
    /\ closes = 1

====
